---- MODULE Spec2Model ----
(***************************************************************************)
(* Theme generation and colour harmonisation engine of the landing-gen     *)
(* builder (src/src/lib/theme-generator.ts).                               *)
(*                                                                         *)
(* Colours and slugs are TLA+ strings, handled character by character the  *)
(* way the code's regular expression, parseInt and toString(16) do.        *)
(* Floating-point luminance is modelled in fixed point: the sRGB           *)
(* linearisation of each 8-bit channel is tabulated at scale 10^6 and the  *)
(* weighted sum is kept at scale 10^8.                                     *)
(***************************************************************************)
EXTENDS Integers, Sequences, FiniteSets, TLC

VARIABLES
    color,        \* adjustLightnessForContrast: argument color
    background,   \* adjustLightnessForContrast: argument background
    targetRatio,  \* adjustLightnessForContrast: argument targetRatio, <<num, den>>
    adjusted,     \* adjustLightnessForContrast: [done, value]
    readjusted,   \* adjustLightnessForContrast applied to adjusted.value: [done, value]
    channels,     \* rgbToHex: arguments <<r, g, b>>
    formatted,    \* rgbToHex: [done, value]
    project,      \* the Project handed to the generator
    palette,      \* the working palette of the colour pipeline
    steps,        \* number of pipeline passes applied to palette
    aiEnabled,    \* config.ai.enabled
    pc,           \* position of generateWithAI: "idle", "fetching", "done"
    fetches,      \* number of requests sent to the AI endpoint
    aiOutcome,    \* what the AI endpoint answered for the current request
    result,       \* the value generateWithAI resolved with
    currentYear,  \* the host's clock: new Date().getFullYear() as text
    records,      \* the project's Generated rows in creation order
    response      \* the last response of POST /api/generate, with its request

vars == <<color, background, targetRatio, adjusted, readjusted, channels, formatted, project,
          palette, steps, aiEnabled, pc, fetches, aiOutcome, result, currentYear, records, response>>

contrastVars == <<color, background, targetRatio, adjusted, readjusted, channels, formatted>>
pipelineVars == <<palette, steps>>
generateVars == <<project, aiEnabled, pc, fetches, aiOutcome, result>>
hostVars == <<currentYear, records, response>>

(***************************************************************************)
(* Strings                                                                 *)
(***************************************************************************)
CharAt(s, i) == SubSeq(s, i, i)

\* String.prototype.includes
Includes(s, sub) ==
    \E i \in 1..(Len(s) - Len(sub) + 1) : SubSeq(s, i, i + Len(sub) - 1) = sub

LowerHex == "0123456789abcdef"
UpperHex == "0123456789ABCDEF"

\* [a-f\d] under the i flag
IsHexChar(ch) == \E i \in 1..16 : CharAt(LowerHex, i) = ch \/ CharAt(UpperHex, i) = ch

\* value of one hex digit, as parseInt(_, 16) reads it
HexDigitValue(ch) ==
    (CHOOSE i \in 1..16 : CharAt(LowerHex, i) = ch \/ CharAt(UpperHex, i) = ch) - 1

parseInt16(s) == 16 * HexDigitValue(CharAt(s, 1)) + HexDigitValue(CharAt(s, 2))

\* Number.prototype.toString(16) of an integer
RECURSIVE NatToHex(_)
NatToHex(n) ==
    IF n < 16 THEN CharAt(LowerHex, n + 1)
    ELSE NatToHex(n \div 16) \o CharAt(LowerHex, (n % 16) + 1)

toString16(n) == IF n < 0 THEN "-" \o NatToHex(0 - n) ELSE NatToHex(n)

\* Math.round of the rational num/den (den > 0): floor(num/den + 1/2)
MathRound(num, den) == (2 * num + den) \div (2 * den)

Min(a, b) == IF a <= b THEN a ELSE b
Max(a, b) == IF a >= b THEN a ELSE b

(***************************************************************************)
(* Colour math                                                             *)
(***************************************************************************)
NoRgb == [ok |-> FALSE, r |-> 0, g |-> 0, b |-> 0]

\* the six digits after the optional '#'
ParseDigits(body) ==
    IF Len(body) = 6 /\ \A i \in 1..6 : IsHexChar(CharAt(body, i))
    THEN [ok |-> TRUE,
          r  |-> parseInt16(SubSeq(body, 1, 2)),
          g  |-> parseInt16(SubSeq(body, 3, 4)),
          b  |-> parseInt16(SubSeq(body, 5, 6))]
    ELSE NoRgb

\* mutant: the leading '#' is required
hexToRgbRequiringHash(hex) ==
    IF Len(hex) >= 1 /\ CharAt(hex, 1) = "#"
    THEN ParseDigits(SubSeq(hex, 2, Len(hex)))
    ELSE NoRgb

hexToRgb(hex) ==
    IF Len(hex) >= 1 /\ CharAt(hex, 1) = "#"
    THEN ParseDigits(SubSeq(hex, 2, Len(hex)))
    ELSE ParseDigits(hex)

\* hex.length === 1 ? "0" + hex : hex
PadHex(hex) == IF Len(hex) = 1 THEN "0" \o hex ELSE hex

HexPair(x) == PadHex(toString16(MathRound(x, 1)))

rgbToHex(r, g, b) == "#" \o HexPair(r) \o HexPair(g) \o HexPair(b)

\* c <= 0.03928 ? c / 12.92 : ((c + 0.055) / 1.055) ^ 2.4 for c = i / 255,
\* i = 0..255, times LinScale and rounded
LinScale == 1000000
LinearChannel ==
    <<
      0, 304, 607, 911, 1214, 1518, 1821, 2125, 2428, 2732, 3035, 3347, 3677, 4025, 4391, 4777,
      5182, 5605, 6049, 6512, 6995, 7499, 8023, 8568, 9134, 9721, 10330, 10960, 11612, 12286, 12983, 13702,
      14444, 15209, 15996, 16807, 17642, 18500, 19382, 20289, 21219, 22174, 23153, 24158, 25187, 26241, 27321, 28426,
      29557, 30713, 31896, 33105, 34340, 35601, 36889, 38204, 39546, 40915, 42311, 43735, 45186, 46665, 48172, 49707,
      51269, 52861, 54480, 56128, 57805, 59511, 61246, 63010, 64803, 66626, 68478, 70360, 72272, 74214, 76185, 78187,
      80220, 82283, 84376, 86500, 88656, 90842, 93059, 95307, 97587, 99899, 102242, 104616, 107023, 109462, 111932, 114435,
      116971, 119538, 122139, 124772, 127438, 130136, 132868, 135633, 138432, 141263, 144128, 147027, 149960, 152926, 155926, 158961,
      162029, 165132, 168269, 171441, 174647, 177888, 181164, 184475, 187821, 191202, 194618, 198069, 201556, 205079, 208637, 212231,
      215861, 219526, 223228, 226966, 230740, 234551, 238398, 242281, 246201, 250158, 254152, 258183, 262251, 266356, 270498, 274677,
      278894, 283149, 287441, 291771, 296138, 300544, 304987, 309469, 313989, 318547, 323143, 327778, 332452, 337164, 341914, 346704,
      351533, 356400, 361307, 366253, 371238, 376262, 381326, 386429, 391572, 396755, 401978, 407240, 412543, 417885, 423268, 428690,
      434154, 439657, 445201, 450786, 456411, 462077, 467784, 473531, 479320, 485150, 491021, 496933, 502886, 508881, 514918, 520996,
      527115, 533276, 539479, 545724, 552011, 558340, 564712, 571125, 577580, 584078, 590619, 597202, 603827, 610496, 617207, 623960,
      630757, 637597, 644480, 651406, 658375, 665387, 672443, 679542, 686685, 693872, 701102, 708376, 715694, 723055, 730461, 737910,
      745404, 752942, 760525, 768151, 775822, 783538, 791298, 799103, 806952, 814847, 822786, 830770, 838799, 846873, 854993, 863157,
      871367, 879622, 887923, 896269, 904661, 913099, 921582, 930111, 938686, 947307, 955973, 964686, 973445, 982251, 991102, 1000000
    >>

\* luminance at scale LumScale = 10^8: floor((2126 R + 7152 G + 722 B) / 100)
\* for linear channels R, G, B at scale LinScale
LumScale == 100000000
WeightedSum(R, G, B) ==
    2126 * (R \div 100) + 7152 * (G \div 100) + 722 * (B \div 100)
    + (2126 * (R % 100) + 7152 * (G % 100) + 722 * (B % 100)) \div 100

LuminanceOfRgb(rgb) ==
    IF ~rgb.ok THEN 0
    ELSE WeightedSum(LinearChannel[rgb.r + 1], LinearChannel[rgb.g + 1], LinearChannel[rgb.b + 1])

getLuminance(hex) == LuminanceOfRgb(hexToRgb(hex))

\* the ratio (brightest + 0.05) / (darkest + 0.05) as <<numerator, denominator>>
RatioOfLuminances(lum1, lum2) ==
    <<Max(lum1, lum2) + LumScale \div 20, Min(lum1, lum2) + LumScale \div 20>>

getContrastRatio(color1, color2) == RatioOfLuminances(getLuminance(color1), getLuminance(color2))

\* ratio >= target, both <<num, den>>
RatioAtLeast(ratio, target) == ratio[1] * target[2] >= target[1] * ratio[2]

\* getContrastRatio(c, bg) >= target
MeetsRatio(c, bg, target) == RatioAtLeast(getContrastRatio(c, bg), target)

\* factor values the loop `for (factor = 0.9; factor > 0.1; factor -= 0.1)`
\* visits, in tenths: the accumulated double after eight subtractions is
\* 0.10000000000000014 > 0.1, so the ninth pass runs with factor ~ 0.1
DarkerFactors == <<9, 8, 7, 6, 5, 4, 3, 2, 1>>
\* `for (factor = 1.1; factor < 3; factor += 0.1)`: 1.1 .. 2.9000000000000017
LighterFactors == [i \in 1..19 |-> 10 + i]

Darker(rgb, k) ==
    rgbToHex(MathRound(rgb.r * k, 10), MathRound(rgb.g * k, 10), MathRound(rgb.b * k, 10))

Lighter(rgb, k) ==
    rgbToHex(Min(255, MathRound(rgb.r * k, 10)),
             Min(255, MathRound(rgb.g * k, 10)),
             Min(255, MathRound(rgb.b * k, 10)))

\* least element of a set of positive integers, 0 for the empty set
FirstOf(S) == IF S = {} THEN 0 ELSE CHOOSE i \in S : \A j \in S : i <= j

\* index of the first pass of the darker loop that returns, 0 if none does
FirstDarker(rgb, bg, target) ==
    FirstOf({i \in 1..Len(DarkerFactors) : MeetsRatio(Darker(rgb, DarkerFactors[i]), bg, target)})

\* index of the first pass of the lighter loop that returns, 0 if none does
FirstLighter(rgb, bg, target) ==
    FirstOf({i \in 1..Len(LighterFactors) : MeetsRatio(Lighter(rgb, LighterFactors[i]), bg, target)})

SearchResult(rgb, bg, d, l) ==
    IF d > 0 THEN Darker(rgb, DarkerFactors[d])
    ELSE IF l > 0 THEN Lighter(rgb, LighterFactors[l])
    ELSE IF 2 * getLuminance(bg) > LumScale THEN "#000000" ELSE "#ffffff"

SearchFrom(rgb, c, bg, target) ==
    IF ~rgb.ok THEN c
    ELSE SearchResult(rgb, bg, FirstDarker(rgb, bg, target), FirstLighter(rgb, bg, target))

\* the part of adjustLightnessForContrast after `if (currentRatio >= targetRatio)`
SearchLightness(c, bg, target) == SearchFrom(hexToRgb(c), c, bg, target)

NormalisedHex(rgb, c) == IF rgb.ok THEN rgbToHex(rgb.r, rgb.g, rgb.b) ELSE c

\* mutant: a compliant colour is re-formatted instead of returned as given
adjustLightnessNormalising(c, bg, target) ==
    IF MeetsRatio(c, bg, target) THEN NormalisedHex(hexToRgb(c), c)
    ELSE SearchLightness(c, bg, target)

\* mutant: the search runs although the colour is compliant
adjustLightnessSearching(c, bg, target) == SearchLightness(c, bg, target)

adjustLightnessForContrast(c, bg, target) ==
    IF MeetsRatio(c, bg, target) THEN c
    ELSE SearchLightness(c, bg, target)

(***************************************************************************)
(* Optional values and JavaScript's `a || b`                               *)
(***************************************************************************)
NoString == [has |-> FALSE, val |-> ""]
SomeString(s) == [has |-> TRUE, val |-> s]
NoArray == [has |-> FALSE, val |-> <<>>]
SomeArray(a) == [has |-> TRUE, val |-> a]

\* mutant: only an unset value is replaced, an empty string is kept
StringOrUnlessEmpty(opt, d) == IF opt.has THEN opt.val ELSE d

\* opt || d for a string: undefined, null and "" are falsy
StringOr(opt, d) == IF opt.has /\ opt.val # "" THEN opt.val ELSE d
\* opt || d for an array: every array, the empty one too, is truthy
ArrayOr(opt, d) == IF opt.has THEN opt.val ELSE d

\* Array.prototype.findIndex on a slug, 0 when nothing matches
FindIndexBySlug(pal, slug) == FirstOf({i \in 1..Len(pal) : pal[i].slug = slug})

\* mutant: the fallback is used whether or not an entry was found
ColorAtOrFallback(pal, i, fallback) == fallback

\* palette.find(p => p.slug === slug)?.color || fallback
ColorAtOr(pal, i, fallback) == IF i > 0 /\ pal[i].color # "" THEN pal[i].color ELSE fallback

FindColorOr(pal, slug, fallback) == ColorAtOr(pal, FindIndexBySlug(pal, slug), fallback)

LowerAlpha == "abcdefghijklmnopqrstuvwxyz"
UpperAlpha == "ABCDEFGHIJKLMNOPQRSTUVWXYZ"

\* String.prototype.toUpperCase of one character
toUpperCase(ch) ==
    IF \E i \in 1..26 : CharAt(LowerAlpha, i) = ch
    THEN CharAt(UpperAlpha, CHOOSE i \in 1..26 : CharAt(LowerAlpha, i) = ch)
    ELSE ch

\* slug.charAt(0).toUpperCase() + slug.slice(1)
DisplayName(slug) ==
    IF Len(slug) = 0 THEN ""
    ELSE toUpperCase(CharAt(slug, 1)) \o SubSeq(slug, 2, Len(slug))

\* Array.prototype.join
RECURSIVE Join(_, _)
Join(parts, sep) ==
    IF Len(parts) = 0 THEN ""
    ELSE IF Len(parts) = 1 THEN parts[1]
    ELSE parts[1] \o sep \o Join(Tail(parts), sep)

(***************************************************************************)
(* Colour pipeline                                                         *)
(***************************************************************************)
\* mutant: the two colours are blended in equal parts
BlendEvenly(rgb, primaryRgb) ==
    rgbToHex(MathRound(rgb.r * 5 + primaryRgb.r * 5, 10),
             MathRound(rgb.g * 5 + primaryRgb.g * 5, 10),
             MathRound(rgb.b * 5 + primaryRgb.b * 5, 10))

\* Math.round(rgb.c * 0.9 + primaryRgb.c * 0.1) per channel
Blend(rgb, primaryRgb) ==
    rgbToHex(MathRound(rgb.r * 9 + primaryRgb.r, 10),
             MathRound(rgb.g * 9 + primaryRgb.g, 10),
             MathRound(rgb.b * 9 + primaryRgb.b, 10))

\* mutant: the token's own colour is blended without the parse check
BlendTokenUnchecked(token, rgb, primaryRgb) ==
    IF ~primaryRgb.ok THEN token
    ELSE [token EXCEPT !.color = Blend(rgb, primaryRgb)]

BlendToken(token, rgb, primaryRgb) ==
    IF ~rgb.ok THEN token
    ELSE IF ~primaryRgb.ok THEN token
    ELSE [token EXCEPT !.color = Blend(rgb, primaryRgb)]

\* mutant: the lock flag is not consulted
harmonizeTokenIgnoringLock(token, primaryColor) ==
    IF token.slug = "primary" THEN [token EXCEPT !.color = primaryColor]
    ELSE BlendToken(token, hexToRgb(token.color), hexToRgb(primaryColor))

\* mutant: the primary token keeps the colour it carries
harmonizeTokenKeepingPrimary(token, primaryColor) ==
    IF token.locked THEN token
    ELSE IF token.slug = "primary" THEN token
    ELSE BlendToken(token, hexToRgb(token.color), hexToRgb(primaryColor))

harmonizeToken(token, primaryColor) ==
    IF token.locked THEN token
    ELSE IF token.slug = "primary" THEN [token EXCEPT !.color = primaryColor]
    ELSE BlendToken(token, hexToRgb(token.color), hexToRgb(primaryColor))

\* mutant: locked tokens are filtered out instead of passed through
harmonizeColorsDroppingLocked(pal, primaryColor) ==
    [i \in 1..Len(SelectSeq(pal, LAMBDA t : ~t.locked)) |->
        harmonizeToken(SelectSeq(pal, LAMBDA t : ~t.locked)[i], primaryColor)]

harmonizeColors(pal, primaryColor) ==
    [i \in 1..Len(pal) |-> harmonizeToken(pal[i], primaryColor)]

\* mutant: only the slug text itself is taken for a text colour
fixTokenOnlyExactText(token, bg) ==
    IF token.locked THEN token
    ELSE IF token.slug = "text"
         THEN [token EXCEPT !.color = adjustLightnessForContrast(token.color, bg, <<9, 2>>)]
    ELSE token

\* mutant: text tokens are not adjusted
fixTokenUnadjusted(token, bg) == token

fixToken(token, bg) ==
    IF token.locked THEN token
    ELSE IF token.slug = "text" \/ Includes(token.slug, "text")
         THEN [token EXCEPT !.color = adjustLightnessForContrast(token.color, bg, <<9, 2>>)]
    ELSE token

FixAgainst(pal, bg) == [i \in 1..Len(pal) |-> fixToken(pal[i], bg)]

validateAndFixContrasts(pal) == FixAgainst(pal, FindColorOr(pal, "background", "#ffffff"))

(***************************************************************************)
(* JSON values whose type matters to the code: a value is absent, has the  *)
(* expected type, or is a truthy value of another type                     *)
(***************************************************************************)
JAbsentArray == [kind |-> "absent", val |-> <<>>]
JArray(a) == [kind |-> "array", val |-> a]
JOtherForArray == [kind |-> "mistyped", val |-> <<>>]
JAbsentString == [kind |-> "absent", val |-> ""]
JString(str) == [kind |-> "string", val |-> str]
JOtherForString == [kind |-> "mistyped", val |-> ""]

NoStyles == [has |-> FALSE, background |-> "", text |-> "", fontFamily |-> "", fontSize |-> ""]

\* the object literal {}
EmptyObject ==
    [kind |-> "object", paletteKind |-> "absent", palette |-> <<>>,
     fontFamilies |-> <<>>, fontSizes |-> <<>>, spacingSteps |-> 0, styles |-> NoStyles]

(***************************************************************************)
(* Deterministic generation                                                *)
(***************************************************************************)
DefaultBenefits ==
    << [title |-> "Fast Performance", description |-> "Optimized for speed and conversion"],
       [title |-> "Mobile First", description |-> "Responsive design that works everywhere"],
       [title |-> "SEO Ready", description |-> "Built with search engines in mind"] >>

DefaultSections == <<"header", "hero", "benefits", "about", "contact", "footer">>

\* mutant: every benefit is rendered
SliceAll(a) == a

\* benefits.slice(0, 3)
Slice3(a) == SubSeq(a, 1, Min(3, Len(a)))

\* the lines one benefit contributes to the columns block
BenefitColumn(benefit) ==
    << "    <!-- wp:column -->",
       "    <div class=\"wp-block-column\">",
       "      <h3 class=\"has-text-align-center\">" \o benefit.title \o "</h3>",
       "      <p class=\"has-text-align-center\">" \o benefit.description \o "</p>",
       "    </div>",
       "    <!-- /wp:column -->" >>

\* benefits.map(benefit => `...`).join('')
RECURSIVE BenefitColumns(_)
BenefitColumns(benefits) ==
    IF benefits = <<>> THEN <<>>
    ELSE BenefitColumn(Head(benefits)) \o BenefitColumns(Tail(benefits))

\* html is the sequence of the template's lines; static lines that carry no
\* block structure are left out
HeaderPattern ==
    [slug |-> "header", title |-> "Header", html |->
       << "<!-- wp:group {\"layout\":{\"type\":\"flex\",\"justifyContent\":\"space-between\",\"flexWrap\":\"wrap\"}} -->",
          "  <!-- wp:site-logo {\"width\":120} /-->",
          "  <!-- wp:navigation {\"overlayMenu\":\"mobile\"} /-->",
          "<!-- /wp:group -->" >>]

\* project.heroPath ? `/uploads/${project.heroPath}` : ''
HeroImage(proj) ==
    IF proj.heroPath.has /\ proj.heroPath.val # "" THEN "/uploads/" \o proj.heroPath.val ELSE ""

HeroWith(proj, primaryColor) ==
    [slug |-> "hero", title |-> "Hero Section", html |->
       << "<!-- wp:cover {\"url\":\"" \o HeroImage(proj) \o "\",\"dimRatio\":30,\"customOverlayColor\":\""
              \o primaryColor \o "\",\"minHeight\":600,\"contentPosition\":\"center center\",\"isDark\":false} -->",
          "  <span aria-hidden=\"true\" class=\"wp-block-cover__background has-background-dim-30\" style=\"background-color:"
              \o primaryColor \o "\"></span>",
          "  " \o (IF HeroImage(proj) # ""
                   THEN "<img class=\"wp-block-cover__image-background\" alt=\"\" src=\""
                            \o HeroImage(proj) \o "\" data-object-fit=\"cover\"/>"
                   ELSE ""),
          "    <h1 class=\"has-text-align-center has-xx-large-font-size\">" \o StringOr(proj.headline, "Welcome to Our Amazing Service") \o "</h1>",
          "    <p class=\"has-text-align-center has-large-font-size\">Transform your business with our innovative solutions</p>",
          "        <a class=\"wp-block-button__link has-white-color has-primary-background-color has-text-color has-background\">"
              \o StringOr(proj.cta, "Get Started Today") \o "</a>",
          "<!-- /wp:cover -->" >>]

HeroPattern(proj, pal) == HeroWith(proj, FindColorOr(pal, "primary", "#3b82f6"))

BenefitsPattern(proj) ==
    [slug |-> "benefits", title |-> "Benefits Section", html |->
       << "<!-- wp:group {\"style\":{\"spacing\":{\"padding\":{\"top\":\"80px\",\"bottom\":\"80px\"}}},\"layout\":{\"type\":\"constrained\"}} -->",
          "  <h2 class=\"has-text-align-center has-x-large-font-size\">Why Choose Us</h2>",
          "  <!-- wp:columns {\"style\":{\"spacing\":{\"margin\":{\"top\":\"40px\"}}}} -->" >>
       \o BenefitColumns(Slice3(ArrayOr(proj.benefits, DefaultBenefits))) \o
       << "  <!-- /wp:columns -->",
          "<!-- /wp:group -->" >>]

AboutPattern ==
    [slug |-> "about", title |-> "About Section", html |->
       << "<!-- wp:group {\"style\":{\"spacing\":{\"padding\":{\"top\":\"80px\",\"bottom\":\"80px\"}}},\"backgroundColor\":\"secondary\",\"layout\":{\"type\":\"constrained\"}} -->",
          "      <h2 class=\"has-x-large-font-size\">About Our Company</h2>",
          "<!-- /wp:group -->" >>]

ContactPattern(proj) ==
    [slug |-> "contact", title |-> "Contact Section", html |->
       << "<!-- wp:group {\"style\":{\"spacing\":{\"padding\":{\"top\":\"80px\",\"bottom\":\"80px\"}}},\"layout\":{\"type\":\"constrained\"}} -->",
          "  <h2 class=\"has-text-align-center has-x-large-font-size\">Get In Touch</h2>",
          "      <p class=\"has-text-align-center\"><strong>Phone:</strong> "
              \o StringOr(proj.phone, "+1 (555) 123-4567") \o "</p>",
          "      <p class=\"has-text-align-center\"><strong>Email:</strong> hello@example.com</p>",
          "      <p class=\"has-text-align-center\"><strong>Address:</strong> "
              \o StringOr(proj.address, "123 Business Street, City, State 12345") \o "</p>",
          "<!-- /wp:group -->" >>]

FooterPattern(proj) ==
    [slug |-> "footer", title |-> "Footer", html |->
       << "<!-- wp:group {\"style\":{\"spacing\":{\"padding\":{\"top\":\"40px\",\"bottom\":\"40px\"}}},\"backgroundColor\":\"neutral\",\"textColor\":\"white\",\"layout\":{\"type\":\"constrained\"}} -->",
          "  <p class=\"has-text-align-center\">© 2024 " \o proj.name \o ". All rights reserved.</p>",
          "<!-- /wp:group -->" >>]

\* mutant: only the patterns that layout.sections names are produced
generateBlockPatternsOfLayout(proj, pal) ==
    SelectSeq(<< HeaderPattern, HeroPattern(proj, pal), BenefitsPattern(proj),
                 AboutPattern, ContactPattern(proj), FooterPattern(proj) >>,
              LAMBDA p : \E i \in 1..Len(ArrayOr(proj.sections, DefaultSections)) :
                            ArrayOr(proj.sections, DefaultSections)[i] = p.slug)

generateBlockPatterns(proj, pal) ==
    << HeaderPattern, HeroPattern(proj, pal), BenefitsPattern(proj),
       AboutPattern, ContactPattern(proj), FooterPattern(proj) >>

\* own properties of the sectionMap object literal
SectionMapKeys == {"header", "hero", "benefits", "about", "services", "contact", "footer"}

OwnSection(section) ==
    IF section \in {"header", "footer"}
    THEN "<!-- wp:template-part {\"slug\":\"" \o section \o "\",\"area\":\"" \o section \o "\"} /-->"
    ELSE "<!-- wp:pattern {\"slug\":\"" \o section \o "\"} /-->"

\* sectionMap is a plain object, so sectionMap[section] also finds what it
\* inherits from Object.prototype; the value found is truthy and Array.join
\* writes it with String(value)
InheritedKeys == {"constructor", "toString", "valueOf", "hasOwnProperty", "__proto__"}

InheritedAsString(section) ==
    IF section = "__proto__" THEN "[object Object]"
    ELSE IF section = "constructor" THEN "function Object() { [native code] }"
    ELSE "function " \o section \o "() { [native code] }"

\* sectionMap[section] || `<!-- wp:pattern {"slug":"${section}"} /-->`
SectionReference(section) ==
    IF section \in SectionMapKeys THEN OwnSection(section)
    ELSE IF section \in InheritedKeys THEN InheritedAsString(section)
    ELSE "<!-- wp:pattern {\"slug\":\"" \o section \o "\"} /-->"

generateFrontPageTemplate(sections) ==
    Join([i \in 1..Len(sections) |-> SectionReference(sections[i])], "\n")

FontSizes ==
    << [slug |-> "small", size |-> "14px", name |-> "Small"],
       [slug |-> "medium", size |-> "16px", name |-> "Medium"],
       [slug |-> "large", size |-> "20px", name |-> "Large"],
       [slug |-> "x-large", size |-> "32px", name |-> "Extra Large"],
       [slug |-> "xx-large", size |-> "48px", name |-> "XX Large"] >>

\* the colour pipeline of generateWordPressTheme
ProcessedPalette(proj) ==
    validateAndFixContrasts(harmonizeColors(proj.palette, StringOr(proj.primary, "#3b82f6")))

\* mutant: the processed tokens are written back into project.brand.palette
InputAfterGenerateInPlace(proj) == [proj EXCEPT !.palette = ProcessedPalette(proj)]

\* the project after a generation: the pipeline builds new arrays (map) of new
\* objects (spread) and mergeWithLockedColors writes to the candidate only
InputAfterGenerate(proj) == proj

\* the returned object, given the processed palette
ThemeFrom(proj, pal) ==
        [themeJson |->
            [kind |-> "object",
             paletteKind |-> "array",
             palette |-> [i \in 1..Len(pal) |->
                             [slug |-> pal[i].slug,
                              name |-> DisplayName(pal[i].slug),
                              color |-> pal[i].color]],
             fontFamilies |->
                << [slug |-> "heading",
                    name |-> StringOr(proj.headingFont.family, "Inter"),
                    fontFamily |-> StringOr(proj.headingFont.fallback, "Inter, system-ui, sans-serif")],
                   [slug |-> "body",
                    name |-> StringOr(proj.bodyFont.family, "System UI"),
                    fontFamily |-> StringOr(proj.bodyFont.fallback, "system-ui, -apple-system, sans-serif")] >>,
             fontSizes |-> FontSizes,
             spacingSteps |-> 7,
             styles |-> [has |-> TRUE,
                         background |-> FindColorOr(pal, "background", "#ffffff"),
                         text |-> FindColorOr(pal, "text", "#1f2937"),
                         fontFamily |-> "var(--wp--preset--font-family--body)",
                         fontSize |-> "var(--wp--preset--font-size--medium)"]],
         patterns |-> JArray(generateBlockPatterns(proj, pal)),
         templateFront |-> JString(generateFrontPageTemplate(ArrayOr(proj.sections, DefaultSections)))]

generateWordPressTheme(proj) == ThemeFrom(proj, ProcessedPalette(proj))

generateDeterministicTheme(proj) == generateWordPressTheme(proj)

(***************************************************************************)
(* AI path                                                                 *)
(***************************************************************************)
NoTheme == [themeJson |-> EmptyObject, patterns |-> JAbsentArray, templateFront |-> JAbsentString]

Returned(theme) == [threw |-> FALSE, theme |-> theme]
Threw == [threw |-> TRUE, theme |-> NoTheme]

\* mutant: a locked token the candidate does not have is added to it
RECURSIVE OverwriteLockedAppending(_, _)
OverwriteLockedAppending(aiPalette, lockedColors) ==
    IF lockedColors = <<>> THEN aiPalette
    ELSE OverwriteLockedAppending(
             IF FindIndexBySlug(aiPalette, Head(lockedColors).slug) > 0
             THEN [aiPalette EXCEPT ![FindIndexBySlug(aiPalette, Head(lockedColors).slug)].color =
                                        Head(lockedColors).color]
             ELSE Append(aiPalette, [slug |-> Head(lockedColors).slug,
                                     name |-> DisplayName(Head(lockedColors).slug),
                                     color |-> Head(lockedColors).color]),
             Tail(lockedColors))

\* lockedColors.forEach(locked => { ... aiPalette[existingIndex].color = locked.color })
RECURSIVE OverwriteLocked(_, _)
OverwriteLocked(aiPalette, lockedColors) ==
    IF lockedColors = <<>> THEN aiPalette
    ELSE LET locked == Head(lockedColors)
             existingIndex == FindIndexBySlug(aiPalette, locked.slug)
         IN  OverwriteLocked(
                 IF existingIndex > 0
                 THEN [aiPalette EXCEPT ![existingIndex].color = locked.color]
                 ELSE aiPalette,
                 Tail(lockedColors))

\* aiTheme is the parsed JSON object [theme_json, patterns, template_front];
\* a truthy palette that is not an array has no findIndex, which throws
mergeWithLockedColors(aiTheme, proj) ==
    LET lockedColors == SelectSeq(proj.palette, LAMBDA t : t.locked)
        tj == aiTheme.theme_json
        hasPalette == tj.kind = "object" /\ tj.paletteKind # "absent"
        merged == IF hasPalette /\ Len(lockedColors) > 0
                  THEN [tj EXCEPT !.palette = OverwriteLocked(tj.palette, lockedColors)]
                  ELSE tj
    IN  IF hasPalette /\ Len(lockedColors) > 0 /\ tj.paletteKind # "array"
        THEN Threw
        ELSE Returned(
                 [themeJson |-> IF tj.kind = "absent" THEN EmptyObject ELSE merged,
                  patterns |-> IF aiTheme.patterns.kind = "absent"
                               THEN JArray(<<>>) ELSE aiTheme.patterns,
                  templateFront |-> IF aiTheme.template_front.kind = "absent"
                                       \/ aiTheme.template_front = JString("")
                                    THEN JString("") ELSE aiTheme.template_front])

\* response is the message text: text.json says whether /\{[\s\S]*\}/ matches
\* ("none"), JSON.parse rejects the match ("invalid") or yields text.parsed
\* fallback is what the catch block returns
MergedOr(merged, fallback) == IF merged.threw THEN fallback ELSE merged.theme

ParsedOr(text, proj, fallback) ==
    IF text.json = "none" THEN fallback
    ELSE IF text.json = "invalid" THEN fallback
    ELSE MergedOr(mergeWithLockedColors(text.parsed, proj), fallback)

parseAIResponse(text, proj) == ParsedOr(text, proj, generateDeterministicTheme(proj))

\* the try block of generateWithAI once fetch has settled with outcome
AfterFetch(outcome, proj) ==
    IF outcome.kind = "rejects" THEN Threw
    ELSE IF outcome.kind = "notOk" THEN Threw
    ELSE IF outcome.kind = "badBody" THEN Threw
    ELSE IF outcome.kind = "noChoices" THEN Threw
    ELSE IF outcome.kind = "emptyContent" THEN Threw
    ELSE Returned(parseAIResponse(outcome.text, proj))

\* try { ... } catch (error) { return generateDeterministicTheme(input) }
Resolved(theme) == [status |-> "resolved", theme |-> theme]
Rejected == [status |-> "rejected", theme |-> NoTheme]
Pending == [status |-> "pending", theme |-> NoTheme]

Uncaught(tried) == IF tried.threw THEN Rejected ELSE Resolved(tried.theme)

\* mutant: no catch around the try block
SettleWithAIUncaught(outcome, proj) == Uncaught(AfterFetch(outcome, proj))

Caught(tried, fallback) == IF tried.threw THEN Resolved(fallback) ELSE Resolved(tried.theme)

SettleWithAI(outcome, proj) == Caught(AfterFetch(outcome, proj), generateDeterministicTheme(proj))

(***************************************************************************)
(* Bounds and input domains                                                *)
(***************************************************************************)
MaxPalette == 2      \* tokens in a project palette
MaxCandidate == 2    \* entries in the palette of an AI candidate
MaxSteps == 3        \* passes of the colour pipeline over one palette
MaxSections == 2     \* names in layout.sections
MaxBenefits == 4     \* entries in content.benefits

MaxTokens == 2       \* tokens in a palette handed to one pipeline function
MaxPasses == 2       \* calls of the pipeline functions on one such palette
MaxRecords == 3      \* Generated rows of the project

SeqsUpTo(S, n) == UNION {[1..k -> S] : k \in 0..n}

Token(slug, c, locked) == [slug |-> slug, color |-> c, locked |-> locked, source |-> "user"]

\* the project POST /api/projects creates, with the given parts replaced
ProjectWith(pal, benefits, sections) ==
    [name |-> "Acme",
     primary |-> NoString,
     palette |-> pal,
     headingFont |-> [family |-> SomeString("Inter"), fallback |-> SomeString("system-ui, sans-serif")],
     bodyFont |-> [family |-> SomeString("System UI"),
                   fallback |-> SomeString("system-ui, -apple-system, sans-serif")],
     headline |-> NoString,
     cta |-> NoString,
     benefits |-> benefits,
     phone |-> NoString,
     address |-> NoString,
     heroPath |-> NoString,
     sections |-> sections]

CreatedPalette ==
    << Token("primary", "#3b82f6", FALSE), Token("secondary", "#10b981", FALSE),
       Token("accent", "#f59e0b", FALSE), Token("neutral", "#6b7280", FALSE) >>

IdleProject == ProjectWith(CreatedPalette, SomeArray(<<>>), SomeArray(DefaultSections))

\* colours handed to adjustLightnessForContrast
ContrastColors ==
    {"#ffffff", "#FFFFFF", "#000000", "#3b82f6", "#808080", "#1f2937", "ffffff", "zzz", "#333333",
     "#fff", "#12345g", "", "#eeeeee"}
Ratios == {<<9, 2>>, <<7, 1>>, <<3, 1>>}

\* channel values handed to rgbToHex
ChannelValues == {-16, -1, 0, 5, 128, 255, 256, 300}

\* palettes run through the colour pipeline
PipelineTokens ==
    {Token(slug, c, l) : slug \in {"primary", "background", "text"},
                         c \in {"#3b82f6", "#ffffff"}, l \in BOOLEAN}
PrimaryColors == {"#3b82f6", "#f59e0b"}
PipelineProjects ==
    {ProjectWith(pal, SomeArray(<<>>), SomeArray(DefaultSections)) :
        pal \in SeqsUpTo(PipelineTokens, MaxPalette)}

\* projects generated with the AI path configured or not
BrandTokens ==
    {Token(slug, c, l) : slug \in {"primary", "text", "accent"},
                         c \in {"#3b82f6", "#ffffff"}, l \in BOOLEAN}
\* slugs are unique within a stored palette (the brand form edits tokens by slug)
UniqueSlugs(pal) == \A i, j \in 1..Len(pal) : pal[i].slug = pal[j].slug => i = j
BrandProjects ==
    {ProjectWith(pal, SomeArray(<<>>), SomeArray(DefaultSections)) :
        pal \in {q \in SeqsUpTo(BrandTokens, MaxPalette) : UniqueSlugs(q)}}

\* projects whose content and layout vary
SampleBenefit(i) ==
    [title |-> "Benefit " \o toString16(i), description |-> "Description " \o toString16(i)]
BenefitLists == {[i \in 1..k |-> SampleBenefit(i)] : k \in 0..MaxBenefits}
SectionNames == {"header", "hero", "services", "gallery", "constructor"}
ContentProjects ==
    {ProjectWith(CreatedPalette, benefits, sections) :
        benefits \in {NoArray} \cup {SomeArray(b) : b \in BenefitLists},
        sections \in {NoArray} \cup {SomeArray(q) : q \in SeqsUpTo(SectionNames, MaxSections)}}

\* projects whose brand varies: brand.primary unset, empty or set, and a
\* palette of background, text and primary tokens with unique slugs whose
\* colours may be empty strings
StyleTokens ==
    {Token(slug, c, FALSE) : slug \in {"background", "text", "primary"},
                             c \in {"#3b82f6", "#777777", ""}}
        \cup {Token("primary", "#777777", TRUE), Token("text", "#777777", TRUE)}
BrandPrimaries == {NoString, SomeString(""), SomeString("#f59e0b")}
StyleProjects ==
    {[ProjectWith(pal, SomeArray(<<>>), SomeArray(DefaultSections)) EXCEPT !.primary = p] :
        pal \in {q \in SeqsUpTo(StyleTokens, MaxPalette) : UniqueSlugs(q)},
        p \in BrandPrimaries}

\* projects whose optional texts are each unset, empty or set
OptionalTexts(text) == {NoString, SomeString(""), SomeString(text)}
TextProjects ==
    {[ProjectWith(CreatedPalette, SomeArray(<<>>), SomeArray(DefaultSections))
        EXCEPT !.headline = h, !.cta = c, !.phone = ph, !.address = ad] :
        h \in OptionalTexts("Fresh Bread Daily"), c \in OptionalTexts("Order Now"),
        ph \in OptionalTexts("+49 30 1234"), ad \in OptionalTexts("1 Main Road")}
\* the years in which generation may be invoked
Years == {"2024", "2025", "2026"}

\* palettes handed to harmonizeColors and validateAndFixContrasts one call at
\* a time; colours are stored as arbitrary strings, so some do not parse
TokenSlugs == {"primary", "background", "text-muted"}
TokenColors == {"#3b82f6", "#ffffff", "zzz"}
\* unlocked tokens of every slug and colour, and a locked white token per slug
HarmonyTokens ==
    {Token(slug, c, FALSE) : slug \in TokenSlugs, c \in TokenColors}
    \cup {Token(slug, "#ffffff", TRUE) : slug \in TokenSlugs}
HarmonyPrimaries == {"#3b82f6", "#f59e0b", "nope"}
\* the three-token palette of a project with a white text on a white background
ScenarioPalette(textLocked) ==
    << [Token("primary", "#3b82f6", FALSE) EXCEPT !.source = "logo_ai"],
       [Token("background", "#ffffff", FALSE) EXCEPT !.source = "manual"],
       Token("text", "#ffffff", textLocked) >>
\* palettes whose background token has an empty colour, or is missing
EdgePalettes ==
    { << Token("background", "", FALSE), Token("text", "#ffffff", FALSE) >>,
      << Token("text", "#3b82f6", FALSE), Token("background", "", TRUE) >>,
      << Token("text", "#3b82f6", FALSE), Token("accent", "#f59e0b", FALSE) >> }
TokenProjects ==
    {ProjectWith(pal, SomeArray(<<>>), SomeArray(DefaultSections)) :
        pal \in SeqsUpTo(HarmonyTokens, MaxTokens)
                \cup {ScenarioPalette(l) : l \in BOOLEAN} \cup EdgePalettes}

\* what the AI endpoint can answer
CandidateEntries ==
    {[slug |-> slug, name |-> DisplayName(slug), color |-> c] :
        slug \in {"primary", "text", "extra"}, c \in {"#111111", "#3b82f6"}}
CandidateThemeJson(pal) ==
    [EmptyObject EXCEPT !.paletteKind = "array", !.palette = pal,
                        !.styles = [has |-> TRUE, background |-> "#ffffff", text |-> "#111111",
                                    fontFamily |-> "", fontSize |-> ""]]
CandidatePatterns ==
    JArray(<< [slug |-> "hero", title |-> "Hero", html |-> <<"<!-- wp:cover /-->">>] >>)
CandidateTemplate == JString("<!-- wp:pattern {\"slug\":\"hero\"} /-->")
WellFormed ==
    {[theme_json |-> CandidateThemeJson(pal), patterns |-> CandidatePatterns,
      template_front |-> CandidateTemplate] : pal \in SeqsUpTo(CandidateEntries, MaxCandidate)}
BaseCandidate ==
    [theme_json |-> CandidateThemeJson(<<>>), patterns |-> CandidatePatterns,
     template_front |-> CandidateTemplate]
Malformed ==
    { [BaseCandidate EXCEPT !.theme_json = [EmptyObject EXCEPT !.kind = "absent"]],
      [BaseCandidate EXCEPT !.theme_json = [EmptyObject EXCEPT !.kind = "mistyped"]],
      [BaseCandidate EXCEPT !.theme_json = [EmptyObject EXCEPT !.paletteKind = "mistyped"]],
      [BaseCandidate EXCEPT !.patterns = JAbsentArray],
      [BaseCandidate EXCEPT !.patterns = JOtherForArray],
      [BaseCandidate EXCEPT !.template_front = JAbsentString],
      [BaseCandidate EXCEPT !.template_front = JOtherForString],
      [theme_json |-> [EmptyObject EXCEPT !.kind = "absent"], patterns |-> JAbsentArray,
       template_front |-> JAbsentString] }

NoText == [json |-> "none", parsed |-> BaseCandidate]
CallFailures == {"rejects", "notOk", "badBody", "noChoices", "emptyContent"}
Outcomes ==
    {[kind |-> k, text |-> NoText] : k \in CallFailures}
    \cup {[kind |-> "content", text |-> [json |-> j, parsed |-> BaseCandidate]] : j \in {"none", "invalid"}}
    \cup {[kind |-> "content", text |-> [json |-> "object", parsed |-> c]] : c \in WellFormed \cup Malformed}
NoOutcome == [kind |-> "none", text |-> NoText]

\* what the AI call may yield while POST /api/generate awaits generateWithAI:
\* a failed call, a well-formed candidate and one whose template is mistyped
RouteOutcomes ==
    { [kind |-> "rejects", text |-> NoText],
      [kind |-> "content",
       text |-> [json |-> "object",
                 parsed |-> [BaseCandidate EXCEPT
                                !.theme_json = CandidateThemeJson(<<[slug |-> "text", name |-> "Text",
                                                                     color |-> "#111111"]>>)]]],
      [kind |-> "content",
       text |-> [json |-> "object",
                 parsed |-> [BaseCandidate EXCEPT !.template_front = JOtherForString]]] }
\* the projects the route is asked to generate
RouteProjects ==
    { IdleProject,
      ProjectWith(<<Token("primary", "#f59e0b", FALSE), Token("text", "#ffffff", TRUE),
                    Token("accent", "#10b981", FALSE)>>,
                  SomeArray(<<>>), SomeArray(DefaultSections)) }

(***************************************************************************)
(* Operations                                                              *)
(***************************************************************************)
NotAdjusted == [done |-> FALSE, value |-> ""]
NotFormatted == [done |-> FALSE, value |-> ""]

\* adjustLightnessForContrast(color, background, targetRatio)
Adjust ==
    /\ ~adjusted.done
    /\ adjusted' = [done |-> TRUE, value |-> adjustLightnessForContrast(color, background, targetRatio)]
    /\ UNCHANGED <<color, background, targetRatio, readjusted, channels, formatted,
                   pipelineVars, generateVars, hostVars>>

\* adjustLightnessForContrast(adjusted colour, background, targetRatio)
AdjustAgain ==
    /\ adjusted.done
    /\ ~readjusted.done
    /\ readjusted' = [done |-> TRUE,
                      value |-> adjustLightnessForContrast(adjusted.value, background, targetRatio)]
    /\ UNCHANGED <<color, background, targetRatio, adjusted, channels, formatted,
                   pipelineVars, generateVars, hostVars>>

\* rgbToHex(r, g, b)
Format ==
    /\ ~formatted.done
    /\ formatted' = [done |-> TRUE, value |-> rgbToHex(channels[1], channels[2], channels[3])]
    /\ UNCHANGED <<color, background, targetRatio, adjusted, readjusted, channels,
                   pipelineVars, generateVars, hostVars>>

\* palette = harmonizeColors(palette, primaryColor)
Harmonize(primaryColor) ==
    /\ steps < MaxSteps
    /\ palette' = harmonizeColors(palette, primaryColor)
    /\ steps' = steps + 1
    /\ UNCHANGED <<contrastVars, hostVars, generateVars>>

\* palette = validateAndFixContrasts(palette)
ValidateContrasts ==
    /\ steps < MaxSteps
    /\ palette' = validateAndFixContrasts(palette)
    /\ steps' = steps + 1
    /\ UNCHANGED <<contrastVars, hostVars, generateVars>>

\* generateDeterministicTheme({ project })
GenerateDeterministic ==
    /\ pc = "idle"
    /\ result' = Resolved(generateDeterministicTheme(project))
    /\ project' = InputAfterGenerate(project)
    /\ pc' = "done"
    /\ UNCHANGED <<contrastVars, hostVars, pipelineVars, aiEnabled, fetches, aiOutcome>>

\* mutant: the request is sent although config.ai.enabled is false
GenerateWithoutAIStillFetching ==
    /\ pc = "idle"
    /\ ~aiEnabled
    /\ fetches' = fetches + 1
    /\ pc' = "fetching"
    /\ UNCHANGED <<contrastVars, hostVars, pipelineVars, project, aiEnabled, aiOutcome, result>>

\* generateWithAI(input) with config.ai.enabled false
GenerateWithoutAI ==
    /\ pc = "idle"
    /\ ~aiEnabled
    /\ result' = Resolved(generateDeterministicTheme(project))
    /\ project' = InputAfterGenerate(project)
    /\ pc' = "done"
    /\ UNCHANGED <<contrastVars, hostVars, pipelineVars, aiEnabled, fetches, aiOutcome>>

\* generateWithAI(input) up to `await fetch(...)`
SendAIRequest ==
    /\ pc = "idle"
    /\ aiEnabled
    /\ fetches' = fetches + 1
    /\ pc' = "fetching"
    /\ UNCHANGED <<contrastVars, hostVars, pipelineVars, project, aiEnabled, aiOutcome, result>>

\* generateWithAI(input) from the settled fetch to its return
ReceiveAIOutcome ==
    /\ pc = "fetching"
    /\ \E outcome \in Outcomes :
          /\ aiOutcome' = outcome
          /\ result' = SettleWithAI(outcome, project)
    /\ project' = InputAfterGenerate(project)
    /\ pc' = "done"
    /\ UNCHANGED <<contrastVars, hostVars, pipelineVars, aiEnabled, fetches>>

\* prisma.generated.create: the row appended to the project's history
NewRecord(recs, theme) == [id |-> Len(recs) + 1, theme |-> theme]
NoRecord == [id |-> 0, theme |-> NoTheme]

\* mutant: orderBy createdAt ascending, the oldest row is taken
OldestRecord(recs) == recs[1]

\* generated: {orderBy: {createdAt: 'desc'}, take: 1}
LatestRecord(recs) == recs[Len(recs)]

\* generatePreviewHTML calls templateFront.match and patterns.find / patterns.map
PreviewThrows(theme) == theme.templateFront.kind # "string" \/ theme.patterns.kind # "array"

\* generateWithAI as the route awaits it
GenerateFor(enabled, outcome, proj) ==
    IF enabled THEN SettleWithAI(outcome, proj) ELSE Resolved(generateDeterministicTheme(proj))

ExistingResponse(force, existing) ==
    [status |-> 200, forceRegenerate |-> force, isFromCache |-> TRUE, generated |-> existing]
CreatedResponse(force, created) ==
    [status |-> IF PreviewThrows(created.theme) THEN 500 ELSE 200,
     forceRegenerate |-> force, isFromCache |-> FALSE,
     generated |-> IF PreviewThrows(created.theme) THEN NoRecord ELSE created]

\* the branch of POST /api/generate that generates and stores
GenerateAndStore(force, created) ==
    /\ records' = Append(records, created)
    /\ response' = CreatedResponse(force, created)
    /\ project' = InputAfterGenerate(project)

\* POST /api/generate for the project, one request handled to its response
PostGenerate ==
    \E force \in BOOLEAN, outcome \in RouteOutcomes :
        /\ IF Len(records) > 0 /\ ~force
           THEN /\ response' = ExistingResponse(force, LatestRecord(records))
                /\ UNCHANGED <<records, project>>
           ELSE /\ Len(records) < MaxRecords
                /\ GenerateAndStore(force,
                       NewRecord(records, GenerateFor(aiEnabled, outcome, project).theme))
        /\ UNCHANGED <<contrastVars, pipelineVars, currentYear, aiEnabled, pc, fetches, aiOutcome, result>>

(***************************************************************************)
(* Specifications                                                          *)
(***************************************************************************)
\* no request handled yet
NoResponse == [status |-> 0, forceRegenerate |-> FALSE, isFromCache |-> FALSE, generated |-> NoRecord]

InitRest(proj) ==
    /\ project = proj
    /\ palette = proj.palette
    /\ steps = 0
    /\ pc = "idle"
    /\ fetches = 0
    /\ aiOutcome = NoOutcome
    /\ result = Pending
    /\ records = <<>>
    /\ response = NoResponse

\* generateWithAI over projects, configurations and AI answers
Init ==
    /\ color = "#ffffff" /\ background = "#ffffff" /\ targetRatio = <<9, 2>>
    /\ adjusted = NotAdjusted /\ readjusted = NotAdjusted
    /\ currentYear = "2024"
    /\ channels = <<0, 0, 0>> /\ formatted = NotFormatted
    /\ aiEnabled \in BOOLEAN
    /\ \E proj \in BrandProjects : InitRest(proj)

Next ==
    \/ GenerateWithoutAI
    \/ SendAIRequest
    \/ ReceiveAIOutcome

Spec == Init /\ [][Next]_vars

\* adjustLightnessForContrast over colours, backgrounds and target ratios
InitContrast ==
    /\ color \in ContrastColors
    /\ background \in ContrastColors
    /\ targetRatio \in Ratios
    /\ adjusted = NotAdjusted /\ readjusted = NotAdjusted
    /\ currentYear = "2024"
    /\ channels = <<0, 0, 0>> /\ formatted = NotFormatted
    /\ aiEnabled = FALSE
    /\ InitRest(IdleProject)

NextContrast ==
    \/ Adjust
    \/ AdjustAgain

SpecContrast == InitContrast /\ [][NextContrast]_vars

\* the colour pipeline applied in any order, and the deterministic generator
InitPipeline ==
    /\ color = "#ffffff" /\ background = "#ffffff" /\ targetRatio = <<9, 2>>
    /\ adjusted = NotAdjusted /\ readjusted = NotAdjusted
    /\ currentYear = "2024"
    /\ channels = <<0, 0, 0>> /\ formatted = NotFormatted
    /\ aiEnabled = FALSE
    /\ \E proj \in PipelineProjects : InitRest(proj)

NextPipeline ==
    \/ \E primaryColor \in PrimaryColors : Harmonize(primaryColor)
    \/ ValidateContrasts
    \/ GenerateDeterministic

SpecPipeline == InitPipeline /\ [][NextPipeline]_vars

\* the deterministic generator over content and layout
InitTheme ==
    /\ color = "#ffffff" /\ background = "#ffffff" /\ targetRatio = <<9, 2>>
    /\ adjusted = NotAdjusted /\ readjusted = NotAdjusted
    /\ currentYear = "2024"
    /\ channels = <<0, 0, 0>> /\ formatted = NotFormatted
    /\ aiEnabled = FALSE
    /\ \E proj \in ContentProjects : InitRest(proj)

NextTheme == GenerateDeterministic

SpecTheme == InitTheme /\ [][NextTheme]_vars

\* generateDeterministicTheme over the projects whose brand varies
InitStyles ==
    /\ color = "#ffffff" /\ background = "#ffffff" /\ targetRatio = <<9, 2>>
    /\ adjusted = NotAdjusted /\ readjusted = NotAdjusted
    /\ currentYear = "2024"
    /\ channels = <<0, 0, 0>> /\ formatted = NotFormatted
    /\ aiEnabled = FALSE
    /\ \E proj \in StyleProjects : InitRest(proj)

NextStyles == GenerateDeterministic

SpecStyles == InitStyles /\ [][NextStyles]_vars

\* generateDeterministicTheme over the projects whose texts vary, invoked in
\* any of the years
InitContent ==
    /\ color = "#ffffff" /\ background = "#ffffff" /\ targetRatio = <<9, 2>>
    /\ adjusted = NotAdjusted /\ readjusted = NotAdjusted
    /\ currentYear \in Years
    /\ channels = <<0, 0, 0>> /\ formatted = NotFormatted
    /\ aiEnabled = FALSE
    /\ \E proj \in TextProjects : InitRest(proj)

NextContent == GenerateDeterministic

SpecContent == InitContent /\ [][NextContent]_vars

\* requests to POST /api/generate for one project, handled one after another
InitRoute ==
    /\ color = "#ffffff" /\ background = "#ffffff" /\ targetRatio = <<9, 2>>
    /\ adjusted = NotAdjusted /\ readjusted = NotAdjusted
    /\ currentYear = "2024"
    /\ channels = <<0, 0, 0>> /\ formatted = NotFormatted
    /\ aiEnabled \in BOOLEAN
    /\ \E proj \in RouteProjects : InitRest(proj)

NextRoute == PostGenerate

SpecRoute == InitRoute /\ [][NextRoute]_vars

\* harmonizeColors and validateAndFixContrasts called on a palette: the order
\* of generateWordPressTheme (harmonize, then validate), and validate alone
InitTokens ==
    /\ color = "#ffffff" /\ background = "#ffffff" /\ targetRatio = <<9, 2>>
    /\ adjusted = NotAdjusted /\ readjusted = NotAdjusted
    /\ currentYear = "2024"
    /\ channels = <<0, 0, 0>> /\ formatted = NotFormatted
    /\ aiEnabled = FALSE
    /\ \E proj \in TokenProjects : InitRest(proj)

NextTokens ==
    \/ \E primaryColor \in HarmonyPrimaries : steps = 0 /\ Harmonize(primaryColor)
    \/ steps < MaxPasses /\ ValidateContrasts

SpecTokens == InitTokens /\ [][NextTokens]_vars

\* rgbToHex over channel values inside and outside 0..255
InitHex ==
    /\ color = "#ffffff" /\ background = "#ffffff" /\ targetRatio = <<9, 2>>
    /\ adjusted = NotAdjusted /\ readjusted = NotAdjusted
    /\ currentYear = "2024"
    /\ channels \in ChannelValues \X ChannelValues \X ChannelValues
    /\ formatted = NotFormatted
    /\ aiEnabled = FALSE
    /\ InitRest(IdleProject)

NextHex == Format

SpecHex == InitHex /\ [][NextHex]_vars

(***************************************************************************)
(* Properties                                                              *)
(***************************************************************************)
LockedIndexes == {i \in 1..Len(project.palette) : project.palette[i].locked}

\* C1: however often and in whatever order harmonizeColors and
\* validateAndFixContrasts are applied, every locked token keeps its position,
\* slug and colour, and the palette entry the deterministic generator emits
\* for it carries the token's input colour.
C1_LockInvariant ==
    /\ Len(palette) = Len(project.palette)
    /\ \A i \in LockedIndexes : palette[i] = project.palette[i]
    /\ result.status = "resolved" =>
          /\ Len(result.theme.themeJson.palette) = Len(project.palette)
          /\ \A i \in LockedIndexes :
                /\ result.theme.themeJson.palette[i].slug = project.palette[i].slug
                /\ result.theme.themeJson.palette[i].color = project.palette[i].color

\* a locked text token that fails the 4.5 ratio against the palette's
\* background went through MaxSteps passes and through generation, while an
\* unlocked token of the same palette was recoloured
C1_Witness ==
    /\ steps = MaxSteps
    /\ result.status = "resolved"
    /\ \E i \in LockedIndexes :
          /\ project.palette[i].slug = "text"
          /\ ~RatioAtLeast(getContrastRatio(palette[i].color,
                                            FindColorOr(palette, "background", "#ffffff")), <<9, 2>>)
    /\ \E i \in 1..Len(palette) : palette[i].color # project.palette[i].color

\* the AI answer of the finished call was parsed and merged, not discarded
CandidateAccepted ==
    /\ pc = "done"
    /\ aiOutcome.kind = "content"
    /\ aiOutcome.text.json = "object"
    /\ ~mergeWithLockedColors(aiOutcome.text.parsed, project).threw

\* C2: in the theme returned for an accepted candidate, no palette entry has
\* the slug of a locked token of the original palette and another colour.
C2_LockedReenforced ==
    CandidateAccepted =>
        \A i \in 1..Len(result.theme.themeJson.palette) : \A j \in LockedIndexes :
            result.theme.themeJson.palette[i].slug = project.palette[j].slug
                => result.theme.themeJson.palette[i].color = project.palette[j].color

ValidHex(c) == hexToRgb(c).ok

\* C3: for valid colours the adjusted colour reaches the target ratio against
\* the background.
C3_ContrastGuarantee ==
    (adjusted.done /\ ValidHex(color) /\ ValidHex(background)) =>
        RatioAtLeast(getContrastRatio(adjusted.value, background), targetRatio)

\* C4: a colour that already reaches the target ratio is returned as the very
\* same string.
C4_CompliantUnchanged ==
    (adjusted.done /\ RatioAtLeast(getContrastRatio(color, background), targetRatio)) =>
        adjusted.value = color

\* an upper-case colour that is compliant came back in upper case
C4_Witness ==
    /\ adjusted.done
    /\ color = "#FFFFFF"
    /\ background = "#1f2937"
    /\ RatioAtLeast(getContrastRatio(color, background), targetRatio)
    /\ adjusted.value = "#FFFFFF"

\* the message text is not the shape {theme_json, patterns (array),
\* template_front (string)}
MalformedText(text) ==
    \/ text.json # "object"
    \/ text.parsed.theme_json.kind # "object"
    \/ text.parsed.patterns.kind # "array"
    \/ text.parsed.template_front.kind # "string"

\* C5: a malformed answer is discarded and the call returns the deterministic
\* theme of the project.
C5_MalformedFallsBack ==
    (pc = "done" /\ aiOutcome.kind = "content" /\ MalformedText(aiOutcome.text)) =>
        result = Resolved(generateDeterministicTheme(project))

\* C6: whatever the AI endpoint answers, a finished generateWithAI call has
\* resolved with a theme, never rejected, and a failed call has resolved with
\* the deterministic theme.
C6_AlwaysYieldsTheme ==
    pc = "done" =>
        /\ result.status = "resolved"
        /\ aiOutcome.kind \in CallFailures =>
              result.theme = generateDeterministicTheme(project)

\* a call whose answer had no choices resolved
C6_Witness ==
    /\ pc = "done"
    /\ fetches = 1
    /\ aiOutcome.kind = "noChoices"
    /\ result.status = "resolved"

\* C7: with the AI feature disabled no request is sent and the result is the
\* deterministic theme.
C7_DisabledIsDeterministic ==
    ~aiEnabled =>
        /\ fetches = 0
        /\ pc # "fetching"
        /\ pc = "done" => result = Resolved(generateDeterministicTheme(project))

\* a call with the AI feature disabled finished for a palette with a token
C7_Witness ==
    /\ ~aiEnabled
    /\ pc = "done"
    /\ Len(project.palette) > 0
    /\ result.status = "resolved"

StartsWith(str, prefix) == Len(str) >= Len(prefix) /\ SubSeq(str, 1, Len(prefix)) = prefix

\* the heading lines of the columns of the benefits pattern of a theme
BenefitHeadings(theme) ==
    LET i == CHOOSE k \in 1..Len(theme.patterns.val) : theme.patterns.val[k].slug = "benefits"
    IN  SelectSeq(theme.patterns.val[i].html,
                  LAMBDA line : StartsWith(line, "      <h3 class=\"has-text-align-center\">"))

HeadingLine(title) == "      <h3 class=\"has-text-align-center\">" \o title \o "</h3>"

\* C8: with content.benefits empty or absent the benefits pattern has exactly
\* the three default columns Fast Performance, Mobile First, SEO Ready.
C8_EmptyBenefitsDefault ==
    (pc = "done" /\ (~project.benefits.has \/ project.benefits.val = <<>>)) =>
        BenefitHeadings(result.theme) =
            <<HeadingLine("Fast Performance"), HeadingLine("Mobile First"), HeadingLine("SEO Ready")>>

SixDefaultLines ==
    "<!-- wp:template-part {\"slug\":\"header\",\"area\":\"header\"} /-->\n"
    \o "<!-- wp:pattern {\"slug\":\"hero\"} /-->\n"
    \o "<!-- wp:pattern {\"slug\":\"benefits\"} /-->\n"
    \o "<!-- wp:pattern {\"slug\":\"about\"} /-->\n"
    \o "<!-- wp:pattern {\"slug\":\"contact\"} /-->\n"
    \o "<!-- wp:template-part {\"slug\":\"footer\",\"area\":\"footer\"} /-->"

\* C9: with layout.sections unset or empty the front template is built from
\* the default order header, hero, benefits, about, contact, footer.
C9_EmptySectionsDefault ==
    (pc = "done" /\ (~project.sections.has \/ project.sections.val = <<>>)) =>
        result.theme.templateFront = JString(SixDefaultLines)

\* the reference the template must hold for a section name
ExpectedReference(name) ==
    IF name = "header" THEN "<!-- wp:template-part {\"slug\":\"header\",\"area\":\"header\"} /-->"
    ELSE IF name = "footer" THEN "<!-- wp:template-part {\"slug\":\"footer\",\"area\":\"footer\"} /-->"
    ELSE "<!-- wp:pattern {\"slug\":\"" \o name \o "\"} /-->"

RECURSIVE ExpectedTemplate(_)
ExpectedTemplate(names) ==
    IF names = <<>> THEN ""
    ELSE IF Len(names) = 1 THEN ExpectedReference(names[1])
    ELSE ExpectedReference(names[1]) \o "\n" \o ExpectedTemplate(Tail(names))

\* C10: the front template of a section list is its references in input
\* order joined by newlines, a template-part for header and footer and a
\* pattern reference with the name as slug for every other name.
C10_TemplateSequencing ==
    (pc = "done" /\ project.sections.has) =>
        result.theme.templateFront = JString(ExpectedTemplate(project.sections.val))

PatternSlugs(theme) == [i \in 1..Len(theme.patterns.val) |-> theme.patterns.val[i].slug]

\* C11: whatever the content and layout.sections of the project (unset, empty
\* or naming unknown sections), the deterministic theme has exactly the six
\* patterns header, hero, benefits, about, contact, footer in that order.
C11_SixPatterns ==
    pc = "done" =>
        /\ result.theme.patterns.kind = "array"
        /\ PatternSlugs(result.theme) = <<"header", "hero", "benefits", "about", "contact", "footer">>

\* a project whose layout names only an unknown section and the hero got all
\* six patterns
C11_Witness ==
    /\ pc = "done"
    /\ project.sections.has
    /\ project.sections.val = <<"gallery", "hero">>
    /\ Len(result.theme.patterns.val) = 6

\* the scenario palette went through harmonizeColors with primary #3b82f6
\* (which tints the unlocked white background) and validateAndFixContrasts
ScenarioRun ==
    /\ steps = 2
    /\ project.palette \in {ScenarioPalette(l) : l \in BOOLEAN}
    /\ palette[1].color = "#3b82f6"
    /\ palette[2].color # "#ffffff"

\* C12: for the palette primary #3b82f6, background #ffffff, text #ffffff
\* with primary colour #3b82f6, harmonize followed by enforceContrast leaves
\* an unlocked text token with a colour other than #ffffff whose ratio against
\* #ffffff is at least 4.5, and leaves a locked text token at #ffffff.
C12_ContrastScenario ==
    ScenarioRun =>
        IF project.palette[3].locked
        THEN palette[3].color = "#ffffff"
        ELSE /\ palette[3].color # "#ffffff"
             /\ RatioAtLeast(getContrastRatio(palette[3].color, "#ffffff"), <<9, 2>>)

\* the unlocked scenario ran and the text token was darkened past its
\* harmonized colour
C12_Witness ==
    /\ ScenarioRun
    /\ ~project.palette[3].locked
    /\ palette[2].color = "#ebf3fe"
    /\ palette[3].color \notin {"#ffffff", "#ebf3fe"}

\* q has the length of p and, index by index, its slug, locked flag and source
SameShape(p, q) ==
    /\ Len(q) = Len(p)
    /\ \A i \in 1..Len(p) :
          /\ q[i].slug = p[i].slug
          /\ q[i].locked = p[i].locked
          /\ q[i].source = p[i].source

\* C13: a call of harmonizeColors returns a palette of the same length whose
\* tokens have, at every index, the slug, locked flag and source of the input
\* token; only the colour may differ.
C13_HarmonizeKeepsShape ==
    [][(\E primaryColor \in HarmonyPrimaries : Harmonize(primaryColor))
          => SameShape(palette, palette')]_vars

\* the scenario palette, whose tokens have three different sources, was
\* harmonized with another primary colour: primary and text were recoloured
C13_Witness ==
    /\ steps = 1
    /\ Len(project.palette) = 3
    /\ project.palette[1].source = "logo_ai"
    /\ palette[1].color = "#f59e0b"
    /\ palette[3].color # project.palette[3].color
    /\ palette[3].source = "user"

\* n is an integer in 0..255 nearest to tenths / 10
NearestChannel(n, tenths) == n \in 0..255 /\ 10 * n - 5 <= tenths /\ tenths < 10 * n + 5

\* '#' and six lower-case hex digits
LowerHexColor(c) ==
    /\ Len(c) = 7
    /\ CharAt(c, 1) = "#"
    /\ \A k \in 2..7 : \E d \in 1..16 : CharAt(c, k) = CharAt(LowerHex, d)

\* out is the 90/10 blend of own with primary, channel by channel
BlendOf(out, own, primary) ==
    /\ LowerHexColor(out)
    /\ NearestChannel(hexToRgb(out).r, 9 * own.r + primary.r)
    /\ NearestChannel(hexToRgb(out).g, 9 * own.g + primary.g)
    /\ NearestChannel(hexToRgb(out).b, 9 * own.b + primary.b)

RecolouringRule(before, after, primaryColor) ==
    \A i \in 1..Len(before) :
        (~before[i].locked /\ ValidHex(primaryColor)) =>
            IF before[i].slug = "primary"
            THEN after[i].color = primaryColor
            ELSE ValidHex(before[i].color) =>
                    BlendOf(after[i].color, hexToRgb(before[i].color), hexToRgb(primaryColor))

\* C14: on a call of harmonizeColors with a valid primary colour, an unlocked
\* token with slug primary gets exactly the primary colour, and every other
\* unlocked token with a valid colour gets, per channel, the integer in 0..255
\* nearest to 0.9 * own + 0.1 * primary, written as '#' and six hex digits.
C14_RecolouringRule ==
    [][\A primaryColor \in HarmonyPrimaries :
          Harmonize(primaryColor) => RecolouringRule(palette, palette', primaryColor)]_vars

\* an unlocked white background was harmonized with #3b82f6 into #ebf3fe next
\* to an unlocked primary token that took the primary colour
C14_Witness ==
    /\ steps = 1
    /\ \E i \in 1..Len(palette) :
          /\ project.palette[i] = Token("background", "#ffffff", FALSE)
          /\ palette[i].color = "#ebf3fe"
    /\ \E i \in 1..Len(palette) :
          /\ project.palette[i] = Token("primary", "#ffffff", FALSE)
          /\ palette[i].color = "#3b82f6"

\* C15: on a call of harmonizeColors, whatever the primary colour, every token
\* whose colour does not parse as hex is returned unchanged, whatever its
\* slug, primary included.
C15_UnparseableUnchanged ==
    [][(\E primaryColor \in HarmonyPrimaries : Harmonize(primaryColor)) =>
          \A i \in 1..Len(palette) :
              ~ValidHex(palette[i].color) => palette'[i] = palette[i]]_vars

\* C15 as amended: on a call of harmonizeColors, whatever the primary colour,
\* every token whose colour does not parse as hex is returned unchanged,
\* except an unlocked token with slug primary, which gets the primary colour.
C15_UnparseableUnchangedUnlessPrimary ==
    [][\A primaryColor \in HarmonyPrimaries : Harmonize(primaryColor) =>
          \A i \in 1..Len(palette) :
              ~ValidHex(palette[i].color) =>
                  IF ~palette[i].locked /\ palette[i].slug = "primary"
                  THEN palette'[i] = [palette[i] EXCEPT !.color = primaryColor]
                  ELSE palette'[i] = palette[i]]_vars

\* a palette with an unparseable unlocked text token and an unparseable
\* unlocked primary token was harmonized: the first kept its colour, the
\* second took the primary colour
C15_Witness ==
    /\ steps = 1
    /\ project.palette = << Token("text-muted", "zzz", FALSE), Token("primary", "zzz", FALSE) >>
    /\ palette[1].color = "zzz"
    /\ palette[2].color = "#f59e0b"

IsTextSlug(slug) == slug = "text" \/ Includes(slug, "text")

BackgroundTokens(pal) == {i \in 1..Len(pal) : pal[i].slug = "background"}

\* the colour of the (first) token with slug background, or #ffffff if there
\* is none
BackgroundOrWhite(pal) ==
    IF BackgroundTokens(pal) = {} THEN "#ffffff" ELSE pal[FirstOf(BackgroundTokens(pal))].color

\* the same, with #ffffff also standing in for an empty colour string
NonEmptyBackgroundOrWhite(pal) ==
    IF BackgroundOrWhite(pal) = "" THEN "#ffffff" ELSE BackgroundOrWhite(pal)

\* after is before with every unlocked text token adjusted against bg and
\* every other token as it was
OnlyTextAdjusted(before, after, bg) ==
    /\ Len(after) = Len(before)
    /\ \A i \in 1..Len(before) :
          after[i] = IF ~before[i].locked /\ IsTextSlug(before[i].slug)
                     THEN [before[i] EXCEPT
                              !.color = adjustLightnessForContrast(before[i].color, bg, <<9, 2>>)]
                     ELSE before[i]

\* C16: a call of validateAndFixContrasts adjusts exactly the unlocked tokens
\* whose slug is or contains text, to ratio 4.5 against the colour of the
\* token with slug background (#ffffff if there is none), and returns every
\* other token unchanged, in the same order.
C16_OnlyUnlockedText ==
    [][ValidateContrasts => OnlyTextAdjusted(palette, palette', BackgroundOrWhite(palette))]_vars

\* C16 as amended: the same, the reference background being #ffffff also when
\* the background token's colour is the empty string.
C16_OnlyUnlockedTextNonEmptyBackground ==
    [][ValidateContrasts =>
          OnlyTextAdjusted(palette, palette', NonEmptyBackgroundOrWhite(palette))]_vars

\* validateAndFixContrasts ran on a palette whose unlocked text-muted token
\* failed 4.5 against a coloured background: the token was darkened, the
\* background token was not touched
C16_Witness ==
    /\ steps = 1
    /\ project.palette = << Token("background", "#3b82f6", FALSE), Token("text-muted", "#ffffff", FALSE) >>
    /\ palette[1] = project.palette[1]
    /\ palette[2].color \notin {"#ffffff", "#ebf3fe"}
    /\ RatioAtLeast(getContrastRatio(palette[2].color, "#3b82f6"), <<9, 2>>)

\* the candidate for a channel factor of k tenths, channels clamped at 255
Scaled(rgb, k) ==
    rgbToHex(Min(255, MathRound(rgb.r * k, 10)),
             Min(255, MathRound(rgb.g * k, 10)),
             Min(255, MathRound(rgb.b * k, 10)))

\* factors 0.9 down to 0.2, then 1.1 up to 2.9, in tenths
StatedFactors == <<9, 8, 7, 6, 5, 4, 3, 2,
                   11, 12, 13, 14, 15, 16, 17, 18, 19, 20,
                   21, 22, 23, 24, 25, 26, 27, 28, 29>>

StatedCandidates(rgb) == [i \in 1..Len(StatedFactors) |-> Scaled(rgb, StatedFactors[i])]

FirstQualifying(candidates, bg, target) ==
    FirstOf({i \in 1..Len(candidates) : MeetsRatio(candidates[i], bg, target)})

QualifyingOrFallback(candidates, i, bg) ==
    IF i > 0 THEN candidates[i]
    ELSE IF 2 * getLuminance(bg) > LumScale THEN "#000000" ELSE "#ffffff"

StatedSearch(candidates, bg, target) ==
    QualifyingOrFallback(candidates, FirstQualifying(candidates, bg, target), bg)

\* C17: for a valid colour below the target ratio the result is the first
\* candidate reaching the ratio among the darker variants for factors 0.9,
\* 0.8, ... 0.2 and then the lighter variants for factors 1.1, ... 2.9 clamped
\* at 255, and otherwise #000000 over a background of luminance above 0.5 and
\* #ffffff over any other.
C17_SearchOrder ==
    (adjusted.done /\ ValidHex(color) /\ ~MeetsRatio(color, background, targetRatio)) =>
        adjusted.value = StatedSearch(StatedCandidates(hexToRgb(color)), background, targetRatio)

LockedSlugs == {project.palette[j].slug : j \in LockedIndexes}

\* out is the candidate palette cand, except for the colour of entries whose
\* slug is the slug of a locked token
PaletteFrame(cand, out) ==
    /\ Len(out) = Len(cand)
    /\ \A i \in 1..Len(cand) :
          /\ out[i].slug = cand[i].slug
          /\ out[i].name = cand[i].name
          /\ cand[i].slug \notin LockedSlugs => out[i].color = cand[i].color

\* theme is the candidate apart from the palette frame
MergeFrame(cand, theme) ==
    /\ (cand.theme_json.kind = "object" /\ cand.theme_json.paletteKind = "array") =>
          /\ PaletteFrame(cand.theme_json.palette, theme.themeJson.palette)
          /\ theme.themeJson = [cand.theme_json EXCEPT !.palette = theme.themeJson.palette]
    /\ cand.patterns.kind # "absent" => theme.patterns = cand.patterns
    /\ cand.template_front.kind # "absent" => theme.templateFront = cand.template_front

\* C18: the theme returned for an accepted candidate is the candidate except
\* for the colour of palette entries whose slug is a locked token's slug:
\* other entries, the palette's length and order, the other settings, the
\* patterns and the front template are the candidate's, and no entry is added
\* for a locked slug the candidate lacks.
C18_MergeFrame ==
    CandidateAccepted => MergeFrame(aiOutcome.text.parsed, result.theme)

\* an accepted candidate with entries extra and text met a project whose
\* accent and text tokens are locked: text was overwritten, extra kept its
\* colour and accent was not added
C18_Witness ==
    /\ CandidateAccepted
    /\ LockedSlugs = {"accent", "text"}
    /\ Len(aiOutcome.text.parsed.theme_json.palette) = 2
    /\ Len(result.theme.themeJson.palette) = 2
    /\ \E i \in 1..2 :
          /\ result.theme.themeJson.palette[i].slug = "extra"
          /\ result.theme.themeJson.palette[i].color = "#111111"
    /\ \E i \in 1..2 :
          /\ result.theme.themeJson.palette[i].slug = "text"
          /\ result.theme.themeJson.palette[i].color # aiOutcome.text.parsed.theme_json.palette[i].color

Clamped(x) == Max(0, Min(255, x))

\* C19: for every triple of channel values, below 0 and above 255 included,
\* rgbToHex returns '#' followed by exactly six lower-case hex digits, the
\* three pairs being the channels clamped to 0..255.
C19_ClampedSixDigits ==
    formatted.done =>
        /\ LowerHexColor(formatted.value)
        /\ hexToRgb(formatted.value) =
              [ok |-> TRUE, r |-> Clamped(channels[1]), g |-> Clamped(channels[2]),
               b |-> Clamped(channels[3])]

HexDigits == "0123456789abcdefABCDEF"

SixHexDigits(str) ==
    /\ Len(str) = 6
    /\ \A k \in 1..6 : \E d \in 1..Len(HexDigits) : CharAt(str, k) = CharAt(HexDigits, d)

\* six hex digits with an optional leading '#'
StrictHex(str) ==
    \/ SixHexDigits(str)
    \/ Len(str) = 7 /\ CharAt(str, 1) = "#" /\ SixHexDigits(SubSeq(str, 2, 7))

\* C20: hexToRgb fails exactly for the strings that are not six hex digits
\* with an optional leading '#'; the luminance of such a string is 0; the
\* contrast ratio of any two strings is a number not below 1; and
\* adjustLightnessForContrast returns a value for any two strings, an
\* unparseable colour being returned unchanged.
C20_OnlyTheParserFails ==
    /\ ValidHex(color) <=> StrictHex(color)
    /\ ValidHex(background) <=> StrictHex(background)
    /\ ~StrictHex(color) => getLuminance(color) = 0
    /\ getContrastRatio(color, background)[2] > 0
    /\ RatioAtLeast(getContrastRatio(color, background), <<1, 1>>)
    /\ (adjusted.done /\ ~StrictHex(color)) => adjusted.value = color

\* a three-digit colour was adjusted against an unparseable background and
\* came back as it was
C20_Witness ==
    /\ adjusted.done
    /\ color = "#fff"
    /\ background = "zzz"
    /\ adjusted.value = "#fff"

OutputPalette == result.theme.themeJson.palette
OutputStyles == result.theme.themeJson.styles
EntriesWithSlug(pal, slug) == {i \in 1..Len(pal) : pal[i].slug = slug}
\* the colour of the entry with the slug, or the default if there is none
EntryColorOr(pal, slug, default) ==
    IF EntriesWithSlug(pal, slug) = {} THEN default
    ELSE pal[CHOOSE i \in EntriesWithSlug(pal, slug) : TRUE].color
\* the same, the default also standing in for an empty colour
NonEmptyEntryColorOr(pal, slug, default) ==
    IF EntryColorOr(pal, slug, default) = "" THEN default ELSE EntryColorOr(pal, slug, default)
OneEntryPerToken ==
    /\ Len(OutputPalette) = Len(project.palette)
    /\ \A i \in 1..Len(OutputPalette) :
          /\ DOMAIN OutputPalette[i] = {"slug", "name", "color"}
          /\ OutputPalette[i].slug = project.palette[i].slug

\* C21: on the deterministic path styles.color.background is the colour of
\* the output palette token with slug 'background', or #ffffff if there is no
\* such token, styles.color.text is the colour of the output token with slug
\* 'text', or #1f2937 if there is none, and the output palette has one
\* {slug, name, color} entry per input token, in order.
C21_StylesFollowPalette ==
    pc = "done" =>
        /\ OutputStyles.background = EntryColorOr(OutputPalette, "background", "#ffffff")
        /\ OutputStyles.text = EntryColorOr(OutputPalette, "text", "#1f2937")
        /\ OneEntryPerToken

\* C21 amended: the defaults also apply when the token's colour is the empty
\* string.
C21_StylesFollowNonEmptyPalette ==
    pc = "done" =>
        /\ OutputStyles.background = NonEmptyEntryColorOr(OutputPalette, "background", "#ffffff")
        /\ OutputStyles.text = NonEmptyEntryColorOr(OutputPalette, "text", "#1f2937")
        /\ OneEntryPerToken

\* a grey text token on a blue background was darkened, and the base styles
\* carry the blue and the corrected text colour
C21_Witness ==
    /\ pc = "done"
    /\ project.palette = <<Token("background", "#3b82f6", FALSE), Token("text", "#777777", FALSE)>>
    /\ OutputStyles.background = "#3b82f6"
    /\ OutputStyles.text = OutputPalette[2].color
    /\ OutputStyles.text # "#777777"

\* the lines of the pattern of a theme with the given slug
PatternLines(theme, slug) ==
    theme.patterns.val[CHOOSE k \in 1..Len(theme.patterns.val) : theme.patterns.val[k].slug = slug].html
SomeLineIncludes(lines, text) == \E k \in 1..Len(lines) : Includes(lines[k], text)

\* C22: the copyright line of the footer pattern contains the project name
\* and the year in which generation was invoked.
C22_FooterCurrentYear ==
    pc = "done" =>
        \E k \in 1..Len(PatternLines(result.theme, "footer")) :
            /\ Includes(PatternLines(result.theme, "footer")[k], project.name)
            /\ Includes(PatternLines(result.theme, "footer")[k], "© " \o currentYear \o " ")

\* the stated value of an optional text: its default when absent or empty
StatedText(opt, default) ==
    IF ~opt.has THEN default ELSE IF opt.val = "" THEN default ELSE opt.val

\* C23: for headline, cta, contact.phone and contact.address the pattern
\* contains the fixed default when the field is absent or empty and the
\* field's own text otherwise; the email line is always the placeholder;
\* generation succeeds for every combination.
C23_ContentDefaults ==
    pc = "done" =>
        /\ result.status = "resolved"
        /\ SomeLineIncludes(PatternLines(result.theme, "hero"),
                            ">" \o StatedText(project.headline, "Welcome to Our Amazing Service") \o "</h1>")
        /\ SomeLineIncludes(PatternLines(result.theme, "hero"),
                            ">" \o StatedText(project.cta, "Get Started Today") \o "</a>")
        /\ SomeLineIncludes(PatternLines(result.theme, "contact"),
                            "<strong>Phone:</strong> " \o StatedText(project.phone, "+1 (555) 123-4567") \o "</p>")
        /\ SomeLineIncludes(PatternLines(result.theme, "contact"),
                            "<strong>Address:</strong> "
                                \o StatedText(project.address, "123 Business Street, City, State 12345") \o "</p>")
        /\ SomeLineIncludes(PatternLines(result.theme, "contact"),
                            "<strong>Email:</strong> hello@example.com</p>")

\* a project with an empty headline, no cta, its own phone and an empty
\* address was generated
C23_Witness ==
    /\ pc = "done"
    /\ project.headline = SomeString("") /\ project.cta = NoString
    /\ project.phone = SomeString("+49 30 1234") /\ project.address = SomeString("")
    /\ SomeLineIncludes(PatternLines(result.theme, "hero"), ">Welcome to Our Amazing Service</h1>")
    /\ SomeLineIncludes(PatternLines(result.theme, "contact"), "<strong>Phone:</strong> +49 30 1234</p>")

ColumnOpenings(theme) ==
    SelectSeq(PatternLines(theme, "benefits"), LAMBDA line : line = "    <!-- wp:column -->")
DescriptionLine(description) == "      <p class=\"has-text-align-center\">" \o description \o "</p>"
BenefitDescriptions(theme) ==
    SelectSeq(PatternLines(theme, "benefits"),
              LAMBDA line : StartsWith(line, "      <p class=\"has-text-align-center\">"))

\* C24: for a content.benefits list of length n >= 1 the benefits pattern has
\* exactly min(n, 3) columns, carrying the first min(n, 3) entries in their
\* order: no later entry and no placeholder column appears.
C24_BenefitsTruncation ==
    (pc = "done" /\ project.benefits.has /\ Len(project.benefits.val) >= 1) =>
        /\ Len(ColumnOpenings(result.theme)) = Min(Len(project.benefits.val), 3)
        /\ BenefitHeadings(result.theme) =
               [i \in 1..Min(Len(project.benefits.val), 3) |-> HeadingLine(project.benefits.val[i].title)]
        /\ BenefitDescriptions(result.theme) =
               [i \in 1..Min(Len(project.benefits.val), 3) |->
                   DescriptionLine(project.benefits.val[i].description)]

\* a list of four benefits was rendered as three columns
C24_Witness ==
    /\ pc = "done"
    /\ project.benefits.has /\ Len(project.benefits.val) = 4
    /\ Len(BenefitHeadings(result.theme)) = 3

Reuses(force) == Len(records) > 0 /\ ~force

\* C26: a request with forceRegenerate=false arriving when a Generated record
\* exists returns the most recently created record with isFromCache=true and
\* creates none; every other successful request appends exactly one new
\* record, the one it returns; existing records are never modified or
\* removed.
C26_GenerateOrReuse ==
    [][/\ Reuses(response'.forceRegenerate) =>
              /\ response'.status = 200 /\ response'.isFromCache
              /\ response'.generated = records[Len(records)]
              /\ \A i \in 1..Len(records) : response'.generated.id >= records[i].id
              /\ records' = records
       /\ (~Reuses(response'.forceRegenerate) /\ response'.status = 200) =>
              /\ ~response'.isFromCache
              /\ records' = Append(records, response'.generated)
              /\ ~aiEnabled => response'.generated.theme = generateDeterministicTheme(project)
       /\ Len(records') >= Len(records)
       /\ SubSeq(records', 1, Len(records)) = records]_vars

\* with two records stored, a request without forceRegenerate got the second
C26_Witness ==
    /\ Len(records) = 2
    /\ response.status = 200 /\ response.isFromCache /\ ~response.forceRegenerate
    /\ response.generated = records[2]

\* C27: for valid hex colour and background and target 4.5, correcting the
\* corrected colour again against the same background returns it unchanged,
\* also when the first result was the black/white fallback.
C27_Idempotent ==
    (readjusted.done /\ StrictHex(color) /\ StrictHex(background) /\ targetRatio = <<9, 2>>) =>
        readjusted.value = adjusted.value

\* light grey on mid grey fell back to white, which misses 4.5, and the second
\* correction returned white again
C27_Witness ==
    /\ readjusted.done
    /\ color = "#eeeeee" /\ background = "#808080" /\ targetRatio = <<9, 2>>
    /\ adjusted.value = "#ffffff"
    /\ ~MeetsRatio(adjusted.value, background, targetRatio)
    /\ readjusted.value = "#ffffff"

ReturnedPalette == result.theme.themeJson.palette
ReturnedStyles == result.theme.themeJson.styles
HasPaletteAndStyles ==
    /\ result.theme.themeJson.kind = "object"
    /\ result.theme.themeJson.paletteKind = "array"
    /\ ReturnedStyles.has
\* styles agree with the first palette entry of the slug, if there is one
StyleMatchesEntry(style, pal, slug) ==
    \A i \in 1..Len(pal) :
        (pal[i].slug = slug /\ \A j \in 1..(i - 1) : pal[j].slug # slug) => style = pal[i].color

\* C28: in every theme generateWithAI returns (deterministic or accepted
\* override) that has a palette and styles.color, styles.color.background is
\* the colour of the palette entry with slug 'background' and
\* styles.color.text that of the entry with slug 'text' whenever such entries
\* exist, also after a locked colour was forced into an override's palette.
C28_PaletteStylesConsistent ==
    (pc = "done" /\ result.status = "resolved" /\ HasPaletteAndStyles) =>
        /\ StyleMatchesEntry(ReturnedStyles.background, ReturnedPalette, "background")
        /\ StyleMatchesEntry(ReturnedStyles.text, ReturnedPalette, "text")

UnlockedPrimaries == {i \in 1..Len(project.palette) :
                         project.palette[i].slug = "primary" /\ ~project.palette[i].locked}
OverlayOf(c) == "\"customOverlayColor\":\"" \o c \o "\""

\* C29: on the deterministic path the output entry of an unlocked token with
\* slug 'primary' has colour project.brand.primary when that is a non-empty
\* string and #3b82f6 otherwise, whatever colour the token carried, and the
\* hero overlay has that same colour.
C29_PrimarySource ==
    pc = "done" =>
        \A i \in UnlockedPrimaries :
            /\ OutputPalette[i].color = StatedText(project.primary, "#3b82f6")
            /\ SomeLineIncludes(PatternLines(result.theme, "hero"), OverlayOf(OutputPalette[i].color))

\* a grey unlocked primary token came out in the brand's amber, the overlay too
C29_Witness ==
    /\ pc = "done"
    /\ project.primary = SomeString("#f59e0b")
    /\ project.palette = <<Token("primary", "#777777", FALSE)>>
    /\ OutputPalette[1].color = "#f59e0b"
    /\ SomeLineIncludes(PatternLines(result.theme, "hero"), OverlayOf("#f59e0b"))

KnownSections == {"header", "hero", "benefits", "about", "services", "contact", "footer"}
ReferencesSlug(template, name) == Includes(template, "{\"slug\":\"" \o name \o "\"")

\* C30: for each section name of the sequencer's fixed lookup, the slug that
\* templateFront references for it is the slug of one of the patterns of the
\* same deterministic theme.
C30_KnownSectionsResolve ==
    pc = "done" =>
        \A name \in KnownSections :
            ReferencesSlug(result.theme.templateFront.val, name) =>
                \E k \in 1..Len(result.theme.patterns.val) : result.theme.patterns.val[k].slug = name

====
